---- MODULE Spec2Model ----
(***************************************************************************)
(* A model of extensions/vscode/src/autocomplete/lsp.ts: the go-to lookup  *)
(* cache (executeGotoProvider), the nearby-call enricher and the request   *)
(* orchestrator (getDefinitionsForNode, getDefinitionsFromLsp) and the     *)
(* type crawl (crawlTypes).                                                *)
(***************************************************************************)
EXTENDS Integers, Sequences, FiniteSets, TLC

VARIABLES
    gotoCache,        \* the Map gotoCache, in insertion order: <<[key, value], ...>>
    calls,            \* the executeGotoProvider calls in flight, one slot each
    hostDefinesName,  \* whether the host's global object defines `name` (line 71)
    lastCall,         \* history: the executeGotoProvider call that completed last
    arrival,          \* history: the keys present, in the order they entered the
                      \* cache, each with the input whose lookup stored its value
    lspPc,            \* getDefinitionsFromLsp: "idle", "walking", "hover", "returned", "raised"
    cursorPosition,   \* its cursorPosition (lines 303-306)
    pending,          \* the nodes of treePath.reverse() its loop has still to visit
    lspResults,       \* its local results (line 308)
    lspReturn,        \* the value it returned
    lspHist,          \* history: what failed during the request
    lastNode,         \* history: the getDefinitionsForNode call that completed last
    crawlPc,          \* the top-level crawlTypes call: "idle", "running", "returned", "raised"
    stack,            \* the crawlTypes activations, the running one last
    tasks,            \* the callbacks of identifierNodes.map of the running activation
    crawlResults,     \* the array results shared by the activations of a crawl
    searchedLabels,   \* the Set searchedLabels shared by the activations of a crawl
    crawlReturn,      \* the array the top-level call returned
    lookedUp,         \* history: the executeGotoProvider calls of the crawl, in order
    joined,           \* history: the definitions the last Promise.all yielded
    findInput,        \* the arguments of a findChildren or findTypeIdentifiers call
    findOutput        \* the array the call returned, once it has

cacheVars == <<gotoCache, calls, hostDefinesName, lastCall, arrival>>

lspVars == <<lspPc, cursorPosition, pending, lspResults, lspReturn, lspHist, lastNode>>

crawlVars == <<crawlPc, stack, tasks, crawlResults, searchedLabels, crawlReturn, lookedUp, joined>>

findVars == <<findInput, findOutput>>

vars == <<cacheVars, lspVars, crawlVars, findVars>>

otherThanCache == <<lspVars, crawlVars, findVars>>
otherThanLsp == <<cacheVars, crawlVars, findVars>>
otherThanFind == <<cacheVars, lspVars, crawlVars>>
\* a crawl reads and writes gotoCache and arrival besides its own variables
otherThanCrawl == <<calls, hostDefinesName, lastCall, lspVars, findVars>>

-----------------------------------------------------------------------------
(* Bounds of the model *)

\* executeGotoProvider calls that can be suspended at their await at one time
MaxCalls == 2

\* initial cache fills explored: empty, and MAX_CACHE_SIZE - WarmSlack .. MAX_CACHE_SIZE
WarmSlack == 1

\* nodes on the path from the root to the cursor
MaxPathLen == 2

\* the largest depth a top-level crawlTypes call is given
MaxDepth == 2

\* the most children of the root of a tree findChildren is called on
MaxFanout == 2

-----------------------------------------------------------------------------
(* Values *)

None == << >>
Some(v) == << v >>
IsSome(o) == o # << >>
\* a || b on two optional fields
OrElse(a, b) == IF IsSome(a) THEN a ELSE b

Pos(l, c) == [line |-> l, character |-> c]
Range(sl, sc, el, ec) == [start |-> Pos(sl, sc), end |-> Pos(el, ec)]

ProviderDefinition == "vscode.executeDefinitionProvider"
ProviderTypeDefinition == "vscode.executeTypeDefinitionProvider"
ProviderReference == "vscode.executeReferenceProvider"

GotoInput(n, u, l, c) == [name |-> n, uri |-> u, line |-> l, character |-> c]

NoInput == GotoInput("", "", 0, 0)

\* What a template literal makes of `input.uri.toString`: the property is read,
\* not called, so the text is that of the function String.prototype.toString.
UriToStringText == "function toString() { [native code] }"

gotoInputKey(input) ==
    input.name \o UriToStringText \o ToString(input.line) \o ToString(input.character)

MAX_CACHE_SIZE == 50

-----------------------------------------------------------------------------
(* The Map gotoCache *)

MapKeys(m) == { m[i].key : i \in 1..Len(m) }
MapHas(m, k) == k \in MapKeys(m)
MapGet(m, k) == LET i == CHOOSE i \in 1..Len(m) : m[i].key = k IN m[i].value
MapDelete(m, k) == SelectSeq(m, LAMBDA e : e.key # k)
\* Map.prototype.set: a present key keeps its place, a new key goes last
MapSet(m, k, v) ==
    LET here == { i \in 1..Len(m) : m[i].key = k }
    IN IF here = {}
       THEN Append(m, [key |-> k, value |-> v])
       ELSE [m EXCEPT ![CHOOSE i \in here : TRUE] = [key |-> k, value |-> v]]
\* gotoCache.keys().next().value
MapFirstKey(m) == m[1].key

-----------------------------------------------------------------------------
(* The external lookup service, vscode.commands.executeCommand(input.name, ...) *)

UriA == [fsPath |-> "/a.ts"]
UriB == [fsPath |-> "/b.ts"]

RawItem(tu, u, tr, r) == [targetUri |-> tu, uri |-> u, targetRange |-> tr, range |-> r]

\* a LocationLink, a Location, and an item without any range
LinkItem == RawItem(Some(UriB), None, Some(Range(0, 0, 4, 1)), None)
LocationItem == RawItem(None, Some(UriA), None, Some(Range(7, 0, 9, 1)))
RangelessItem == RawItem(None, Some(UriA), None, None)

\* the arrays the service answers with
DefinitionLists == { << RangelessItem >>, << LinkItem, LocationItem >> }

\* lines 52-57: filter, then map
Normalize(definitions) ==
    LET kept == SelectSeq(definitions,
                          LAMBDA d : IsSome(OrElse(d.targetUri, d.uri))
                                     /\ IsSome(OrElse(d.targetRange, d.range)))
    IN [i \in 1..Len(kept) |->
          [filepath |-> OrElse(kept[i].targetUri, kept[i].uri)[1].fsPath,
           range    |-> OrElse(kept[i].targetRange, kept[i].range)[1]]]

-----------------------------------------------------------------------------
(* executeGotoProvider *)

\* line 64 taking the key that entered last
OldestKey_Newest(cache) == cache[Len(cache)].key

\* line 64: gotoCache.keys().next().value
OldestKey(cache) == MapFirstKey(cache)

\* lines 62-66 with > for >=
AfterEviction_OffByOne(cache) ==
    IF Len(cache) > MAX_CACHE_SIZE THEN MapDelete(cache, OldestKey(cache)) ELSE cache

\* lines 62-66: at capacity the oldest key is deleted
AfterEviction(cache) ==
    IF Len(cache) >= MAX_CACHE_SIZE THEN MapDelete(cache, OldestKey(cache)) ELSE cache

\* lines 61-67 without the set of line 67
StoreResult_NoSet(cache, cacheKey, results) == AfterEviction(cache)

\* lines 61-67: the cache after the store
StoreResult(cache, cacheKey, results) == MapSet(AfterEviction(cache), cacheKey, results)

\* lines 70-73 with input.name for name
CatchOutcome_InputName == "caught"

\* lines 70-73: the handler reads the free identifier `name` before it returns [];
\* where the host defines no such global the read throws a ReferenceError
CatchOutcome == IF hostDefinesName THEN "caught" ELSE "threw"

Idle == [pc |-> "idle", input |-> NoInput]
Awaiting(input) == [pc |-> "awaiting", input |-> input]

\* the record of a completed call
Completed(input, outcome, result, external, servedFrom, evicted) ==
    [seq |-> 1 - lastCall.seq, input |-> input, outcome |-> outcome, result |-> result,
     external |-> external, servedFrom |-> servedFrom, evicted |-> evicted]

NoCall == [seq |-> 0, input |-> NoInput, outcome |-> "none", result |-> << >>,
           external |-> FALSE, servedFrom |-> NoInput, evicted |-> None]

\* history: the input whose lookup stored the value now under key k
StoredFor(k) == LET i == CHOOSE i \in 1..Len(arrival) : arrival[i].key = k IN arrival[i].input

\* lines 38-46: the cache test; a hit returns the entry, a miss calls the service
Begin(p, input) ==
    LET cacheKey == gotoInputKey(input) IN
    /\ calls[p].pc = "idle"
    /\ IF MapHas(gotoCache, cacheKey)
       THEN /\ lastCall' = Completed(input, "hit", MapGet(gotoCache, cacheKey), FALSE,
                                     StoredFor(cacheKey), None)
            /\ UNCHANGED calls
       ELSE /\ calls' = [calls EXCEPT ![p] = Awaiting(input)]
            /\ UNCHANGED lastCall
    /\ UNCHANGED <<gotoCache, hostDefinesName, arrival>>
    /\ UNCHANGED otherThanCache

\* history: arrival after the keys of gone left the cache and key was stored
ArrivalAfter(arr, gone, key, input) ==
    LET left == SelectSeq(arr, LAMBDA a : a.key \notin gone)
        here == { i \in 1..Len(left) : left[i].key = key }
    IN IF here = {}
       THEN Append(left, [key |-> key, input |-> input])
       ELSE [left EXCEPT ![CHOOSE i \in here : TRUE] = [key |-> key, input |-> input]]

\* lines 52-69: the service answered with an array; normalise, store, return
LookupResolves(p, definitions) ==
    LET input == calls[p].input
        cacheKey == gotoInputKey(input)
        results == Normalize(definitions)
        evicted == MapKeys(gotoCache) \ MapKeys(AfterEviction(gotoCache))
    IN
    /\ calls[p].pc = "awaiting"
    /\ gotoCache' = StoreResult(gotoCache, cacheKey, results)
    /\ calls' = [calls EXCEPT ![p] = Idle]
    /\ arrival' = ArrivalAfter(arrival, evicted, cacheKey, input)
    /\ lastCall' = Completed(input, "stored", results, TRUE, input,
                             IF evicted = {} THEN None ELSE Some(CHOOSE k \in evicted : TRUE))
    /\ UNCHANGED hostDefinesName
    /\ UNCHANGED otherThanCache

\* lines 70-73 storing the empty result of the failure under the key
Catch_Memoizes(p) ==
    /\ lastCall' = Completed(calls[p].input, CatchOutcome, << >>, TRUE, NoInput, None)
    /\ calls' = [calls EXCEPT ![p] = Idle]
    /\ gotoCache' = MapSet(gotoCache, gotoInputKey(calls[p].input), << >>)
    /\ arrival' = ArrivalAfter(arrival, {}, gotoInputKey(calls[p].input), calls[p].input)
    /\ UNCHANGED hostDefinesName
    /\ UNCHANGED otherThanCache

\* lines 70-73 entered from the await of line 46 or from line 52
Catch(p) ==
    /\ lastCall' = Completed(calls[p].input, CatchOutcome, << >>, TRUE, NoInput, None)
    /\ calls' = [calls EXCEPT ![p] = Idle]
    /\ UNCHANGED <<gotoCache, hostDefinesName, arrival>>
    /\ UNCHANGED otherThanCache

\* lines 46-50: executeCommand rejects (the provider threw, or timed out)
LookupRejects(p) ==
    /\ calls[p].pc = "awaiting"
    /\ Catch(p)

\* line 52: executeCommand resolved with undefined, so definitions.filter throws
LookupMalformed(p) ==
    /\ calls[p].pc = "awaiting"
    /\ Catch(p)

-----------------------------------------------------------------------------
(* getFunctionInfo, getDefinitionsForNode, getDefinitionsFromLsp *)

\* texts are sequences of characters
IsSpace(c) == c \in {" ", "\n", "\t"}

RECURSIVE TrimStart(_)
TrimStart(s) == IF s # << >> /\ IsSpace(Head(s)) THEN TrimStart(Tail(s)) ELSE s

RECURSIVE TrimEnd(_)
TrimEnd(s) ==
    IF s # << >> /\ IsSpace(s[Len(s)]) THEN TrimEnd(SubSeq(s, 1, Len(s) - 1)) ELSE s

\* String.prototype.trim
Trim(s) == TrimEnd(TrimStart(s))

\* the entries of Hover.contents: an object with a value, an object without one
\* (kind "object", value None), a bare string, and null
ValueEntry(text) == [kind |-> "object", value |-> Some(text)]
PlainEntry == [kind |-> "object", value |-> None]
StringEntry == [kind |-> "string", value |-> None]
NullEntry == [kind |-> "null", value |-> None]
Hover(contents) == [contents |-> contents]

Returned(v) == [threw |-> FALSE, value |-> v]
Threw == [threw |-> TRUE, value |-> << >>]

\* lines 219-226 without the trim
getFunctionInfo_NoTrim(hoverResult) ==
    IF IsSome(hoverResult) /\ Len(hoverResult[1]) > 0
    THEN LET contents == hoverResult[1][1].contents IN
         IF contents = << >> THEN Returned(<< >>)
         ELSE IF contents[1].kind = "null" THEN Threw
         ELSE IF contents[1].kind = "object" /\ IsSome(contents[1].value)
              THEN Returned(contents[1].value[1])
              ELSE Returned(<< >>)
    ELSE Returned(<< >>)

\* lines 219-226: what getFunctionInfo makes of the hover service's answer.
\* typeof null is 'object', so `'value' in hoverContent` throws for a null entry.
getFunctionInfo(hoverResult) ==
    IF IsSome(hoverResult) /\ Len(hoverResult[1]) > 0
    THEN LET contents == hoverResult[1][1].contents IN
         IF contents = << >> THEN Returned(<< >>)
         ELSE IF contents[1].kind = "null" THEN Threw
         ELSE IF contents[1].kind = "object" /\ IsSome(contents[1].value)
              THEN Returned(Trim(contents[1].value[1]))
              ELSE Returned(<< >>)
    ELSE Returned(<< >>)

MAX_DISTANCE == 5

Node(type, row) ==
    [type |-> type, startPosition |-> [row |-> row, column |-> 0],
     endPosition |-> [row |-> row, column |-> 3]]

\* lines 249-251: the cases of the switch
IsCall(node) == node.type \in {"call_expression", "call"}

Abs(n) == IF n < 0 THEN -n ELSE n

\* line 254
Distance(node, cursor) == Abs(node.startPosition.row - cursor.line)

\* line 256 with < for <=
Nearby_Strict(node, cursor) == Distance(node, cursor) < MAX_DISTANCE

\* line 256
Nearby(node, cursor) == Distance(node, cursor) <= MAX_DISTANCE

\* lines 260-271: the ranges getDefinitionsForNode returns for a hover text
RangesFor(uri, node, hoverInfo) ==
    IF hoverInfo # << >>
    THEN << [filepath |-> uri,
             range |-> [start |-> Pos(node.startPosition.row, node.startPosition.column),
                        end |-> Pos(node.endPosition.row, node.endPosition.column)],
             contents |-> hoverInfo] >>
    ELSE << >>

\* lines 322-325: the snippets returned for results
Snippets(results) ==
    [i \in 1..Len(results) |->
       [filepath |-> results[i].filepath, range |-> results[i].range,
        contents |-> results[i].contents, score |-> "0.8"]]

\* String.prototype.lastIndexOf("\n", fromIndex), on 0-based indices
LastIndexOfNewline(text, fromIndex) ==
    LET from == IF fromIndex < 0 THEN 0 ELSE fromIndex
        found == { k \in 0..(Len(text) - 1) : k <= from /\ text[k + 1] = "\n" }
    IN IF found = {} THEN -1 ELSE CHOOSE k \in found : \A j \in found : j <= k

\* lines 303-306: the arguments of new vscode.Position
CursorLine(text, cursorIndex) ==
    Cardinality({ i \in 1..Len(text) : i <= cursorIndex /\ text[i] = "\n" })
CursorCharacter(text, cursorIndex) ==
    cursorIndex - LastIndexOfNewline(text, cursorIndex - 1) - 1

\* new vscode.Position rejects a negative line or character
PositionThrows(line, character) == line < 0 \/ character < 0

\* lines 326-329 rethrowing
LspCatch_Rethrow == [pc |-> "raised", value |-> << >>]

\* lines 326-329: the catch of getDefinitionsFromLsp
LspCatch == [pc |-> "returned", value |-> << >>]

NoNode == [node |-> Node("", 0), issued |-> FALSE, hover |-> None, yielded |-> << >>]

NoHist == [ast |-> "none", path |-> "none", cursorThrew |-> FALSE, hoverFailed |-> FALSE]

LspIdle ==
    /\ lspPc = "idle"
    /\ cursorPosition = Pos(0, 0)
    /\ pending = << >>
    /\ lspResults = << >>
    /\ lspReturn = << >>
    /\ lspHist = NoHist
    /\ lastNode = NoNode

Reverse(s) == [i \in 1..Len(s) |-> s[Len(s) + 1 - i]]

\* lines 295-296: getAst yields no tree, or throws
LspParseFails(how) ==
    /\ lspPc = "idle"
    /\ lspPc' = (IF how = "throws" THEN LspCatch.pc ELSE "returned")
    /\ lspReturn' = << >>
    /\ lspHist' = [lspHist EXCEPT !.ast = how]
    /\ UNCHANGED <<cursorPosition, pending, lspResults, lastNode>>
    /\ UNCHANGED otherThanLsp

\* lines 298-299: getTreePathAtCursor yields no path, or throws
LspPathFails(how) ==
    /\ lspPc = "idle"
    /\ lspPc' = (IF how = "throws" THEN LspCatch.pc ELSE "returned")
    /\ lspReturn' = << >>
    /\ lspHist' = [lspHist EXCEPT !.ast = "ok", !.path = how]
    /\ UNCHANGED <<cursorPosition, pending, lspResults, lastNode>>
    /\ UNCHANGED otherThanLsp

\* lines 295-309: tree and path obtained, the cursor position computed
LspStart(text, cursorIndex, treePath) ==
    LET line == CursorLine(text, cursorIndex)
        character == CursorCharacter(text, cursorIndex)
    IN
    /\ lspPc = "idle"
    /\ IF PositionThrows(line, character)
       THEN /\ lspPc' = LspCatch.pc
            /\ lspReturn' = LspCatch.value
            /\ lspHist' = [lspHist EXCEPT !.ast = "ok", !.path = "ok", !.cursorThrew = TRUE]
            /\ UNCHANGED <<cursorPosition, pending>>
       ELSE /\ lspPc' = "walking"
            /\ cursorPosition' = Pos(line, character)
            /\ pending' = Reverse(treePath)
            /\ lspHist' = [lspHist EXCEPT !.ast = "ok", !.path = "ok"]
            /\ UNCHANGED lspReturn
    /\ UNCHANGED <<lspResults, lastNode>>
    /\ UNCHANGED otherThanLsp

\* lines 309-318 and 244-283 for a node that needs no hover
VisitNode ==
    LET node == Head(pending) IN
    /\ lspPc = "walking"
    /\ pending # << >>
    /\ IF IsCall(node) /\ Nearby(node, cursorPosition)
       THEN /\ lspPc' = "hover"
            /\ UNCHANGED <<pending, lastNode>>
       ELSE /\ lastNode' = [node |-> node, issued |-> FALSE, hover |-> None, yielded |-> << >>]
            /\ pending' = Tail(pending)
            /\ UNCHANGED lspPc
    /\ UNCHANGED <<cursorPosition, lspResults, lspReturn, lspHist>>
    /\ UNCHANGED otherThanLsp

\* lines 213-226, 258-272, 318: the hover service answered
HoverResolves(uri, hoverResult) ==
    LET node == Head(pending)
        info == getFunctionInfo(hoverResult)
        ranges == RangesFor(uri, node, info.value)
    IN
    /\ lspPc = "hover"
    /\ IF info.threw
       THEN /\ lspPc' = LspCatch.pc
            /\ lspReturn' = LspCatch.value
            /\ lspHist' = [lspHist EXCEPT !.hoverFailed = TRUE]
            /\ UNCHANGED <<pending, lspResults, lastNode>>
       ELSE /\ lspPc' = "walking"
            /\ lspResults' = lspResults \o ranges
            /\ pending' = Tail(pending)
            /\ lastNode' = [node |-> node, issued |-> TRUE, hover |-> Some(hoverResult),
                            yielded |-> ranges]
            /\ UNCHANGED <<lspReturn, lspHist>>
    /\ UNCHANGED cursorPosition
    /\ UNCHANGED otherThanLsp

\* lines 213-217: executeCommand rejects; nothing between it and line 326 catches
HoverRejects ==
    /\ lspPc = "hover"
    /\ lspPc' = LspCatch.pc
    /\ lspReturn' = LspCatch.value
    /\ lspHist' = [lspHist EXCEPT !.hoverFailed = TRUE]
    /\ UNCHANGED <<cursorPosition, pending, lspResults, lastNode>>
    /\ UNCHANGED otherThanLsp

\* lines 321-325: the loop is over
LspReturns ==
    /\ lspPc = "walking"
    /\ pending = << >>
    /\ lspPc' = "returned"
    /\ lspReturn' = Snippets(lspResults)
    /\ UNCHANGED <<cursorPosition, pending, lspResults, lspHist, lastNode>>
    /\ UNCHANGED otherThanLsp

-----------------------------------------------------------------------------
(* findChildren, findTypeIdentifiers *)

\* a syntax node; text is a sequence of characters
SyntaxNode(type, text, row, column, children) ==
    [type |-> type, text |-> text, startPosition |-> [row |-> row, column |-> column],
     children |-> children]

\* String.prototype.toUpperCase on one character: only a lower-case letter changes
LowerCase == << "a", "b", "c", "d", "e", "f", "g", "h", "i", "j", "k", "l", "m",
                "n", "o", "p", "q", "r", "s", "t", "u", "v", "w", "x", "y", "z" >>
UpperCase == << "A", "B", "C", "D", "E", "F", "G", "H", "I", "J", "K", "L", "M",
                "N", "O", "P", "Q", "R", "S", "T", "U", "V", "W", "X", "Y", "Z" >>
ToUpperCase(c) ==
    IF \E i \in 1..26 : LowerCase[i] = c
    THEN UpperCase[CHOOSE i \in 1..26 : LowerCase[i] = c]
    ELSE c

\* lines 115-119: the predicate of findTypeIdentifiers; parentType is
\* childNode.parent?.type ?? ""
IsTypeIdentifier(childNode, parentType) ==
    \/ childNode.type = "type_identifier"
    \/ /\ parentType = "ERROR"
       /\ childNode.type = "identifier"
       /\ ToUpperCase(childNode.text[1]) = childNode.text[1]

\* the predicates findChildren is called with, by name
Satisfies(predicate, node, parentType) ==
    IF predicate = "typeIdentifier" THEN IsTypeIdentifier(node, parentType)
    ELSE node.type = predicate

\* `firstN ?`: an optional number is truthy when it is given and not 0
Truthy(firstN) == IsSome(firstN) /\ firstN[1] # 0

RECURSIVE findChildren(_, _, _, _)
RECURSIVE FindInChildren(_, _, _, _, _)

\* lines 99-107: the loop over node.children from the i-th child on, with
\* matchingNodes found so far
FindInChildren(node, i, predicate, firstN, matchingNodes) ==
    IF i > Len(node.children) THEN matchingNodes
    ELSE FindInChildren(node, i + 1, predicate, firstN,
            matchingNodes \o
            findChildren(node.children[i], node.type, predicate,
                         IF Truthy(firstN) THEN Some(firstN[1] - Len(matchingNodes))
                                           ELSE None))

\* lines 82-110
findChildren(node, parentType, predicate, firstN) ==
    IF Truthy(firstN) /\ firstN[1] <= 0 THEN << >>
    ELSE FindInChildren(node, 1, predicate, firstN,
                        IF Satisfies(predicate, node, parentType) THEN << node >> ELSE << >>)

\* lines 112-121
findTypeIdentifiers(node) == findChildren(node, "", "typeIdentifier", None)

-----------------------------------------------------------------------------
(* The files, the parser and the range reader the crawl works on *)

\* /a.ts, the file of the top-level seed:   a: Foo;  b: Foo;  c: Bar;
SeedText == "a: Foo;\nb: Foo;\nc: Bar;"
SeedAst ==
    [lineCount |-> 3,
     rootNode |->
       SyntaxNode("program", << >>, 0, 0,
         << SyntaxNode("type_identifier", << "F", "o", "o" >>, 0, 3, << >>),
            SyntaxNode("type_identifier", << "F", "o", "o" >>, 1, 3, << >>),
            SyntaxNode("type_identifier", << "B", "a", "r" >>, 2, 3, << >>) >>)]

\* the definition of Foo
FooText == "class Foo {\n  x: Bar;\n  y: Baz;\n}"
FooAst ==
    [lineCount |-> 4,
     rootNode |->
       SyntaxNode("program", << >>, 0, 0,
         << SyntaxNode("class_declaration", << >>, 0, 0,
              << SyntaxNode("type_identifier", << "F", "o", "o" >>, 0, 6, << >>),
                 SyntaxNode("type_identifier", << "B", "a", "r" >>, 1, 5, << >>),
                 SyntaxNode("type_identifier", << "B", "a", "z" >>, 2, 5, << >>) >>) >>)]

\* the definition of Bar, which refers back to Foo
BarText == "class Bar extends Foo {\n}"
BarAst ==
    [lineCount |-> 2,
     rootNode |->
       SyntaxNode("program", << >>, 0, 0,
         << SyntaxNode("class_declaration", << >>, 0, 0,
              << SyntaxNode("type_identifier", << "B", "a", "r" >>, 0, 6, << >>),
                 SyntaxNode("type_identifier", << "F", "o", "o" >>, 0, 18, << >>) >>) >>)]

\* a definition that does not parse cleanly:   q = Qux<
BazText == "q = Qux<"
BazAst ==
    [lineCount |-> 1,
     rootNode |->
       SyntaxNode("program", << >>, 0, 0,
         << SyntaxNode("ERROR", << >>, 0, 0,
              << SyntaxNode("identifier", << "q" >>, 0, 0, << >>),
                 SyntaxNode("identifier", << "Q", "u", "x" >>, 0, 4, << >>) >>) >>)]

\* the definition of Qux, which refers to Quux
QuxText == "class Qux {\n  z: Quux;\n}"
QuxAst ==
    [lineCount |-> 3,
     rootNode |->
       SyntaxNode("program", << >>, 0, 0,
         << SyntaxNode("class_declaration", << >>, 0, 0,
              << SyntaxNode("type_identifier", << "Q", "u", "x" >>, 0, 6, << >>),
                 SyntaxNode("type_identifier", << "Q", "u", "u", "x" >>, 1, 5, << >>) >>) >>)]

\* the definition of Quux
QuuxText == "class Quux {}"
QuuxAst ==
    [lineCount |-> 1,
     rootNode |->
       SyntaxNode("program", << >>, 0, 0,
         << SyntaxNode("class_declaration", << >>, 0, 0,
              << SyntaxNode("type_identifier", << "Q", "u", "u", "x" >>, 0, 6, << >>) >>) >>)]

\* getAst(filepath, contents) when the parse succeeds
Ast(contents) ==
    CASE contents = SeedText -> SeedAst
      [] contents = FooText -> FooAst
      [] contents = BarText -> BarAst
      [] contents = BazText -> BazAst
      [] contents = QuxText -> QuxAst
      [] contents = QuuxText -> QuuxAst

\* the places the lookup service answers with: two overlapping ranges of /b.ts
\* and a range of /c.ts
LocFoo == [filepath |-> "/b.ts", range |-> Range(0, 0, 4, 1)]
LocBar == [filepath |-> "/b.ts", range |-> Range(2, 0, 6, 1)]
LocBaz == [filepath |-> "/c.ts", range |-> Range(0, 0, 3, 1)]
Locations == { LocFoo, LocBar, LocBaz }

\* further places, of a project in which Bar is defined in a file of its own
LocBarAlone == [filepath |-> "/e.ts", range |-> Range(0, 0, 2, 1)]
LocQux == [filepath |-> "/d.ts", range |-> Range(0, 0, 3, 1)]
LocQuux == [filepath |-> "/d.ts", range |-> Range(10, 0, 11, 1)]

\* ide.readRangeInFile(filepath, range) when the read succeeds
ReadRangeInFile(filepath, range) ==
    CASE [filepath |-> filepath, range |-> range] = LocFoo -> FooText
      [] [filepath |-> filepath, range |-> range] = LocBar -> BarText
      [] [filepath |-> filepath, range |-> range] = LocBaz -> BazText
      [] [filepath |-> filepath, range |-> range] = LocBarAlone -> BarText
      [] [filepath |-> filepath, range |-> range] = LocQux -> QuxText
      [] [filepath |-> filepath, range |-> range] = LocQuux -> QuuxText

\* ide.readFile(filepath) when the read succeeds
ReadFile(filepath) == SeedText

\* the arrays the lookup service answers a crawl's lookups with
CrawlDefinitionLists ==
    { << RangelessItem >> } \cup
    { << RawItem(Some([fsPath |-> loc.filepath]), None, Some(loc.range), None) >> :
        loc \in Locations }

-----------------------------------------------------------------------------
(* intersection of core/util/ranges *)

PosLess(p, q) == p.line < q.line \/ (p.line = q.line /\ p.character < q.character)
MaxPos(p, q) == IF PosLess(p, q) THEN q ELSE p
MinPos(p, q) == IF PosLess(p, q) THEN p ELSE q

\* intersection(a, b) !== null, for half-open ranges
Intersects(a, b) == PosLess(MaxPos(a.start, b.start), MinPos(a.end, b.end))

-----------------------------------------------------------------------------
(* crawlTypes *)

\* a RangeInFile, or a RangeInFileWithContents when contents is given
Rif(filepath, range, contents) ==
    [filepath |-> filepath, range |-> range, contents |-> contents]

\* lines 76-80
isRifWithContents(rif) == IsSome(rif.contents)

\* an activation of crawlTypes: "enter" before line 130, "lookups" at the await
\* of line 155, "recurse" in the loop of lines 201-203 with the rest of [...crawlResults]
Frame(rif, depth) == [rif |-> rif, depth |-> depth, stage |-> "enter", snapshot |-> << >>]

Top == stack[Len(stack)]
WithTop(f) == [stack EXCEPT ![Len(stack)] = f]
Popped == SubSeq(stack, 1, Len(stack) - 1)

Min(a, b) == IF a < b THEN a ELSE b

\* lines 158-167: the lookup for an identifier node of rif
LookupInput(rif, node, astLineCount) ==
    GotoInput(ProviderDefinition, rif.filepath,
              rif.range.start.line + Min(node.startPosition.row, astLineCount - 1),
              rif.range.start.character + node.startPosition.column)

\* lines 145-147: the identifier nodes whose text is not in searchedLabels
NewIdentifiers(rootNode, searched) ==
    SelectSeq(findTypeIdentifiers(rootNode), LAMBDA node : node.text \notin searched)

\* line 150 left out
LabelsAfter_Unchanged(searched, identifierNodes) == searched

\* line 150: searchedLabels after the texts of identifierNodes were added
LabelsAfter(searched, identifierNodes) ==
    searched \cup { identifierNodes[i].text : i \in 1..Len(identifierNodes) }

\* one callback of identifierNodes.map: "lookup" at the await of line 158 (46),
\* "read" at the await of line 177, "done" when it returned, "failed" when it threw
Task(node, input) ==
    [text |-> node.text, input |-> input, pc |-> "lookup", typeDef |-> None,
     definition |-> None]

\* lines 158, 169-178: the callback once executeGotoProvider returned found
AfterLookup(task, found) ==
    IF found = << >>
    THEN [task EXCEPT !.pc = "done"]
    ELSE [task EXCEPT !.pc = "read", !.typeDef = Some(found[1])]

\* lines 38-43 inside line 158: a cached key is answered without the service
Started(task, cache) ==
    IF MapHas(cache, gotoInputKey(task.input))
    THEN AfterLookup(task, MapGet(cache, gotoInputKey(task.input)))
    ELSE task

\* lines 186-190: definition duplicates an entry of res
IsDuplicate(res, definition) ==
    \E i \in 1..Len(res) :
       /\ res[i].filepath = definition.filepath
       /\ Intersects(res[i].range, definition.range)

\* lines 183-195 comparing the file only with the entry pushed last
Deduplicated_LastOnly(res, definitions) ==
    LET keep(acc, d) ==
          IF d = None \/ (acc # << >> /\ IsDuplicate(<< acc[Len(acc)] >>, d[1]))
          THEN acc ELSE Append(acc, d[1])
        RECURSIVE go(_, _)
        go(acc, i) == IF i > Len(definitions) THEN acc
                      ELSE go(keep(acc, definitions[i]), i + 1)
    IN go(res, 1)

\* lines 183-195: results after the loop over definitions
Deduplicated(res, definitions) ==
    LET keep(acc, d) ==
          IF d = None \/ IsDuplicate(acc, d[1]) THEN acc ELSE Append(acc, d[1])
        RECURSIVE go(_, _)
        go(acc, i) == IF i > Len(definitions) THEN acc
                      ELSE go(keep(acc, definitions[i]), i + 1)
    IN go(res, 1)

\* a rejected await inside crawlTypes: no activation catches, so the top-level
\* call rejects
Raise ==
    /\ crawlPc' = "raised"
    /\ stack' = << >>

\* `return results` of the top activation (lines 141, 206) with crawlResults res
Return(res) ==
    /\ stack' = Popped
    /\ IF Len(stack) = 1
       THEN crawlPc' = "returned" /\ crawlReturn' = res
       ELSE UNCHANGED <<crawlPc, crawlReturn>>

\* a top-level call crawlTypes(seed, ide, depth)
CrawlStart(seed, depth) ==
    /\ crawlPc = "idle"
    /\ crawlPc' = "running"
    /\ stack' = << Frame(seed, depth) >>
    /\ UNCHANGED <<tasks, crawlResults, searchedLabels, lookedUp, joined, crawlReturn>>
    /\ UNCHANGED otherThanCrawl
    /\ UNCHANGED <<gotoCache, arrival>>

\* line 135: ide.readFile rejects
FrameReadFails ==
    /\ crawlPc = "running"
    /\ Top.stage = "enter"
    /\ ~isRifWithContents(Top.rif)
    /\ Raise
    /\ UNCHANGED <<tasks, crawlResults, searchedLabels, lookedUp, joined, crawlReturn>>
    /\ UNCHANGED otherThanCrawl
    /\ UNCHANGED <<gotoCache, arrival>>

\* lines 140-141: getAst yields no tree (the crawlResults are returned), or rejects
FrameParseFails(how) ==
    /\ crawlPc = "running"
    /\ Top.stage = "enter"
    /\ IF how = "undefined"
       THEN Return(crawlResults)
       ELSE Raise /\ UNCHANGED crawlReturn
    /\ UNCHANGED <<tasks, crawlResults, searchedLabels, lookedUp, joined>>
    /\ UNCHANGED otherThanCrawl
    /\ UNCHANGED <<gotoCache, arrival>>

\* lines 130-167: contents, tree, identifiers, searchedLabels, and the lookups
\* started by identifierNodes.map
FrameExtracts ==
    LET rif == Top.rif
        contents == IF isRifWithContents(rif) THEN rif.contents[1] ELSE ReadFile(rif.filepath)
        ast == Ast(contents)
        identifierNodes == NewIdentifiers(ast.rootNode, searchedLabels)
        started == [i \in 1..Len(identifierNodes) |->
                      Started(Task(identifierNodes[i],
                                   LookupInput(rif, identifierNodes[i], ast.lineCount)),
                              gotoCache)]
    IN
    /\ crawlPc = "running"
    /\ Top.stage = "enter"
    /\ searchedLabels' = LabelsAfter(searchedLabels, identifierNodes)
    /\ lookedUp' = lookedUp \o [i \in 1..Len(started) |->
                                    [text |-> started[i].text, input |-> started[i].input,
                                     cached |-> started[i].pc # "lookup"]]
    /\ tasks' = started
    /\ stack' = WithTop([Top EXCEPT !.stage = "lookups"])
    /\ UNCHANGED <<crawlPc, crawlResults, joined, crawlReturn>>
    /\ UNCHANGED otherThanCrawl
    /\ UNCHANGED <<gotoCache, arrival>>

\* lines 52-69 inside line 158: the service answered the lookup of task i
TaskLookupResolves(i, definitions) ==
    LET input == tasks[i].input
        cacheKey == gotoInputKey(input)
        found == Normalize(definitions)
        evicted == MapKeys(gotoCache) \ MapKeys(AfterEviction(gotoCache))
    IN
    /\ tasks[i].pc = "lookup"
    /\ gotoCache' = StoreResult(gotoCache, cacheKey, found)
    /\ arrival' = ArrivalAfter(arrival, evicted, cacheKey, input)
    /\ tasks' = [tasks EXCEPT ![i] = AfterLookup(tasks[i], found)]
    /\ UNCHANGED <<crawlPc, stack, crawlResults, searchedLabels, lookedUp, joined, crawlReturn>>
    /\ UNCHANGED otherThanCrawl

\* lines 70-73 inside line 158: the lookup of task i failed
TaskLookupFails(i) ==
    /\ tasks[i].pc = "lookup"
    /\ IF CatchOutcome = "caught"
       THEN /\ tasks' = [tasks EXCEPT ![i] = AfterLookup(tasks[i], << >>)]
            /\ UNCHANGED <<crawlPc, stack>>
       ELSE /\ tasks' = [tasks EXCEPT ![i].pc = "failed"]
            /\ IF crawlPc = "running" THEN Raise ELSE UNCHANGED <<crawlPc, stack>>
    /\ UNCHANGED <<crawlResults, searchedLabels, lookedUp, joined, crawlReturn>>
    /\ UNCHANGED otherThanCrawl
    /\ UNCHANGED <<gotoCache, arrival>>

\* lines 175-178: ide.readRangeInFile answered task i
TaskReadResolves(i) ==
    LET typeDef == tasks[i].typeDef[1] IN
    /\ tasks[i].pc = "read"
    /\ tasks' = [tasks EXCEPT ![i].pc = "done",
                              ![i].definition =
                                 Some(Rif(typeDef.filepath, typeDef.range,
                                          Some(ReadRangeInFile(typeDef.filepath,
                                                               typeDef.range))))]
    /\ UNCHANGED <<crawlPc, stack, crawlResults, searchedLabels, lookedUp, joined, crawlReturn>>
    /\ UNCHANGED otherThanCrawl
    /\ UNCHANGED <<gotoCache, arrival>>

\* line 177: ide.readRangeInFile rejects for task i
TaskReadFails(i) ==
    /\ tasks[i].pc = "read"
    /\ tasks' = [tasks EXCEPT ![i].pc = "failed"]
    /\ IF crawlPc = "running" THEN Raise ELSE UNCHANGED <<crawlPc, stack>>
    /\ UNCHANGED <<crawlResults, searchedLabels, lookedUp, joined, crawlReturn>>
    /\ UNCHANGED otherThanCrawl
    /\ UNCHANGED <<gotoCache, arrival>>

\* line 200 recursing at depth 0 as well
ShouldRecurse_AtZero(depth) == depth >= 0

\* line 200: `if (depth > 0)`
ShouldRecurse(depth) == depth > 0

\* line 202: the depth a recursive call is given
ChildDepth(depth) == depth - 1

\* lines 155, 182-206: Promise.all fulfilled; deduplicate, then recurse or return
FrameJoins ==
    LET definitions == [i \in 1..Len(tasks) |-> tasks[i].definition]
        res == Deduplicated(crawlResults, definitions)
    IN
    /\ crawlPc = "running"
    /\ Top.stage = "lookups"
    /\ \A i \in 1..Len(tasks) : tasks[i].pc = "done"
    /\ crawlResults' = res
    /\ joined' = definitions
    /\ tasks' = << >>
    /\ IF ShouldRecurse(Top.depth)
       THEN /\ stack' = WithTop([Top EXCEPT !.stage = "recurse", !.snapshot = res])
            /\ UNCHANGED <<crawlPc, crawlReturn>>
       ELSE Return(res)
    /\ UNCHANGED <<searchedLabels, lookedUp>>
    /\ UNCHANGED otherThanCrawl
    /\ UNCHANGED <<gotoCache, arrival>>

\* line 201 with an iterator that does not advance
Remaining_Same(snapshot) == snapshot

\* line 201: what the for-of loop over [...results] has left after an iteration
Remaining(snapshot) == Tail(snapshot)

\* lines 201-206: the next result of the snapshot is crawled, or the loop is over
FrameRecurses ==
    /\ crawlPc = "running"
    /\ Top.stage = "recurse"
    /\ IF Top.snapshot = << >>
       THEN Return(crawlResults)
       ELSE /\ stack' = Append(WithTop([Top EXCEPT !.snapshot = Remaining(Top.snapshot)]),
                               Frame(Head(Top.snapshot), ChildDepth(Top.depth)))
            /\ UNCHANGED <<crawlPc, crawlReturn>>
    /\ UNCHANGED <<tasks, crawlResults, searchedLabels, lookedUp, joined>>
    /\ UNCHANGED otherThanCrawl
    /\ UNCHANGED <<gotoCache, arrival>>

\* a call findChildren(node, predicate, firstN), from its arguments to its return
FindChildrenRuns ==
    /\ findInput.function = "findChildren"
    /\ findOutput = None
    /\ findOutput' = Some(findChildren(findInput.node, "", findInput.predicate,
                                        findInput.firstN))
    /\ UNCHANGED findInput
    /\ UNCHANGED otherThanFind

\* a call findTypeIdentifiers(node), from its argument to its return
FindTypeIdentifiersRuns ==
    /\ findInput.function = "findTypeIdentifiers"
    /\ findOutput = None
    /\ findOutput' = Some(findTypeIdentifiers(findInput.node))
    /\ UNCHANGED findInput
    /\ UNCHANGED otherThanFind

FindCall(function, node, predicate, firstN) ==
    [function |-> function, node |-> node, predicate |-> predicate, firstN |-> firstN]

\* no call of the two functions is modelled
FindIdle ==
    /\ findInput = FindCall("none", SyntaxNode("", << >>, 0, 0, << >>), "", None)
    /\ findOutput = None

\* no crawl was started
CrawlIdle ==
    /\ crawlPc = "idle"
    /\ stack = << >>
    /\ tasks = << >>
    /\ crawlResults = << >>
    /\ searchedLabels = {}
    /\ crawlReturn = << >>
    /\ lookedUp = << >>
    /\ joined = << >>

-----------------------------------------------------------------------------
(* The lookups of the cache specification *)

Names == { ProviderDefinition, ProviderTypeDefinition }

\* inputs that differ in the kind, in the file, or in the line and the column
Inputs ==
    { GotoInput(ProviderDefinition, "file:///a.ts", 1, 23),
      GotoInput(ProviderDefinition, "file:///b.ts", 1, 23),
      GotoInput(ProviderDefinition, "file:///a.ts", 12, 3),
      GotoInput(ProviderTypeDefinition, "file:///a.ts", 1, 23) }

\* the i-th of the lookups that filled the cache before the behaviour starts:
\* one of Inputs first, then lookups of other places
FillInput(i) ==
    IF i = 1 THEN GotoInput(ProviderDefinition, "file:///a.ts", 1, 23)
             ELSE GotoInput(ProviderReference, "file:///a.ts", i, 0)

\* what the service answered to it
FillAnswer(i) == IF i = 1 THEN << LinkItem, LocationItem >> ELSE << RangelessItem >>

\* the cache after the lookups FillInput(1) .. FillInput(n), one after the other
Filled(n) == [i \in 1..n |-> [key |-> gotoInputKey(FillInput(i)),
                              value |-> Normalize(FillAnswer(i))]]

Fills == {0} \cup ((MAX_CACHE_SIZE - WarmSlack)..MAX_CACHE_SIZE)

Procs == 1..MaxCalls

InitCache ==
    /\ \E n \in Fills :
         /\ gotoCache = Filled(n)
         /\ arrival = [i \in 1..n |-> [key |-> gotoInputKey(FillInput(i)),
                                       input |-> FillInput(i)]]
    /\ calls = [p \in Procs |-> Idle]
    /\ hostDefinesName \in BOOLEAN
    /\ lastCall = NoCall
    /\ LspIdle
    /\ CrawlIdle
    /\ FindIdle

NextCache ==
    \/ \E p \in Procs, input \in Inputs : Begin(p, input)
    \/ \E p \in Procs, definitions \in DefinitionLists : LookupResolves(p, definitions)
    \/ \E p \in Procs : LookupRejects(p)
    \/ \E p \in Procs : LookupMalformed(p)

SpecCache == InitCache /\ [][NextCache]_vars

-----------------------------------------------------------------------------
(* The requests of the orchestrator specification *)

\* a text of seven empty lines, and one of two lines
Documents == { [i \in 1..(MAX_DISTANCE + 1) |-> "\n"], << "x", "\n", "x" >> }

NodeTypes == { "call_expression", "call", "identifier" }
NodeRows == { 0, MAX_DISTANCE, MAX_DISTANCE + 1 }
Nodes == { Node(t, r) : t \in NodeTypes, r \in NodeRows }

RECURSIVE SeqsUpTo(_, _)
SeqsUpTo(S, n) ==
    IF n = 0 THEN { << >> }
    ELSE LET shorter == SeqsUpTo(S, n - 1)
         IN shorter \cup { Append(q, x) : q \in shorter, x \in S }

TreePaths == SeqsUpTo(Nodes, MaxPathLen)

HoverTexts == { << >>, << " " >>, << " ", "f", "\n" >> }

HoverResults ==
    { None, Some(<< >>), Some(<< Hover(<< >>) >>), Some(<< Hover(<< StringEntry >>) >>),
      Some(<< Hover(<< PlainEntry >>) >>), Some(<< Hover(<< NullEntry >>) >>),
      Some(<< Hover(<< ValueEntry(<< "g" >>), ValueEntry(<< "f" >>) >>),
              Hover(<< ValueEntry(<< "f" >>) >>) >>) }
    \cup { Some(<< Hover(<< ValueEntry(t) >>) >>) : t \in HoverTexts }

Failures == { "undefined", "throws" }

InitLsp ==
    /\ gotoCache = << >>
    /\ arrival = << >>
    /\ calls = [p \in Procs |-> Idle]
    /\ hostDefinesName \in BOOLEAN
    /\ lastCall = NoCall
    /\ LspIdle
    /\ CrawlIdle
    /\ FindIdle

\* a request: getDefinitionsFromLsp(filepath, contents, cursorIndex, ...)
LspRequest ==
    /\ lspPc = "idle"
    /\ \E text \in Documents, treePath \in TreePaths :
         \E cursorIndex \in 0..Len(text) : LspStart(text, cursorIndex, treePath)

NextLsp ==
    \/ \E how \in Failures : LspParseFails(how)
    \/ \E how \in Failures : LspPathFails(how)
    \/ LspRequest
    \/ VisitNode
    \/ \E hoverResult \in HoverResults : HoverResolves("file:///a.ts", hoverResult)
    \/ HoverRejects
    \/ LspReturns

SpecLsp == InitLsp /\ [][NextLsp]_vars

-----------------------------------------------------------------------------
(* The crawls of the crawl specification *)

\* the seeds: /a.ts with its contents attached, and without
Seeds ==
    { Rif("/a.ts", Range(0, 0, 3, 0), Some(SeedText)),
      Rif("/a.ts", Range(0, 0, 3, 0), None) }

Depths == 0..MaxDepth

\* the cache when the crawl starts: empty, or holding the answer of an earlier
\* lookup at the place of the seed's first identifier
EarlierInput == GotoInput(ProviderDefinition, "/a.ts", 0, 3)
EarlierCache == << [key |-> gotoInputKey(EarlierInput), value |-> << LocBaz >>] >>
EarlierArrival == << [key |-> gotoInputKey(EarlierInput), input |-> EarlierInput] >>

InitCrawl ==
    /\ \/ gotoCache = << >> /\ arrival = << >>
       \/ gotoCache = EarlierCache /\ arrival = EarlierArrival
    /\ calls = [p \in Procs |-> Idle]
    /\ hostDefinesName \in BOOLEAN
    /\ lastCall = NoCall
    /\ LspIdle
    /\ CrawlIdle
    /\ FindIdle

TaskIds == 1..Len(tasks)

NextCrawl ==
    \/ \E seed \in Seeds, depth \in Depths : CrawlStart(seed, depth)
    \/ FrameReadFails
    \/ \E how \in Failures : FrameParseFails(how)
    \/ FrameExtracts
    \/ \E i \in TaskIds, definitions \in CrawlDefinitionLists : TaskLookupResolves(i, definitions)
    \/ \E i \in TaskIds : TaskLookupFails(i)
    \/ \E i \in TaskIds : TaskReadResolves(i)
    \/ \E i \in TaskIds : TaskReadFails(i)
    \/ FrameJoins
    \/ FrameRecurses

SpecCrawl == InitCrawl /\ [][NextCrawl]_vars

\* the crawls in which every external call (readFile, getAst, executeCommand,
\* readRangeInFile) returns; the event loop runs every continuation that is ready
NextCrawlReturning ==
    \/ \E seed \in Seeds, depth \in Depths : CrawlStart(seed, depth)
    \/ FrameParseFails("undefined")
    \/ FrameExtracts
    \/ \E i \in TaskIds, definitions \in CrawlDefinitionLists : TaskLookupResolves(i, definitions)
    \/ \E i \in TaskIds : TaskReadResolves(i)
    \/ FrameJoins
    \/ FrameRecurses

\* the catch block of executeGotoProvider is never entered in these crawls, so
\* one host stands for both
InitCrawlReturning == InitCrawl /\ hostDefinesName

SpecCrawlReturning ==
    InitCrawlReturning /\ [][NextCrawlReturning]_vars /\ WF_vars(NextCrawlReturning)

-----------------------------------------------------------------------------
(* The crawls of a project in which every name has one definition *)

\* the place of the definition of a name
DefinitionOf(text) ==
    CASE text = << "F", "o", "o" >> -> LocFoo
      [] text = << "B", "a", "r" >> -> LocBarAlone
      [] text = << "B", "a", "z" >> -> LocBaz
      [] text = << "Q", "u", "x" >> -> LocQux
      [] text = << "Q", "u", "u", "x" >> -> LocQuux

\* what the lookup service answers for a name
AnswerFor(text) ==
    LET loc == DefinitionOf(text)
    IN << RawItem(Some([fsPath |-> loc.filepath]), None, Some(loc.range), None) >>

InitCrawlProject ==
    /\ gotoCache = << >>
    /\ arrival = << >>
    /\ calls = [p \in Procs |-> Idle]
    /\ hostDefinesName = TRUE
    /\ lastCall = NoCall
    /\ LspIdle
    /\ CrawlIdle
    /\ FindIdle

NextCrawlProject ==
    \/ \E seed \in Seeds, depth \in Depths : CrawlStart(seed, depth)
    \/ FrameExtracts
    \/ \E i \in TaskIds : TaskLookupResolves(i, AnswerFor(tasks[i].text))
    \/ \E i \in TaskIds : TaskReadResolves(i)
    \/ FrameJoins
    \/ FrameRecurses

SpecCrawlProject == InitCrawlProject /\ [][NextCrawlProject]_vars

-----------------------------------------------------------------------------
(* The calls of the tree-search specification *)

\* trees for findChildren: a root with up to MaxFanout children, each a leaf or
\* the parent of one leaf; the predicate asks for the kind "a"
Kinds == { "a", "b" }
Leaf(kind) == SyntaxNode(kind, << >>, 0, 0, << >>)
Branches == { Leaf(k) : k \in Kinds }
            \cup { SyntaxNode(k, << >>, 0, 0, << Leaf(l) >>) : k \in Kinds, l \in Kinds }
KindTrees ==
    { SyntaxNode(k, << >>, 0, 0, children) :
        k \in Kinds, children \in SeqsUpTo(Branches, MaxFanout) }

\* firstN: absent, or a number
Caps == { None } \cup { Some(n) : n \in 0..(MaxFanout + 1) }

\* trees for findTypeIdentifiers: a parent with one child whose text starts with
\* an upper-case letter, a lower-case letter, an underscore or a dollar sign
Texts == { << "F", "o", "o" >>, << "f", "o", "o" >>, << "_", "x" >>, << "$", "x" >> }
ChildKinds == { "type_identifier", "identifier", "property_identifier" }
ParentKinds == { "ERROR", "program" }
TextTrees ==
    { SyntaxNode(p, << >>, 0, 0, << SyntaxNode(k, t, 0, 0, << >>) >>) :
        p \in ParentKinds, k \in ChildKinds, t \in Texts }

FindCalls ==
    { FindCall("findChildren", node, "a", firstN) : node \in KindTrees, firstN \in Caps }
    \cup { FindCall("findTypeIdentifiers", node, "typeIdentifier", None) : node \in TextTrees }

InitFind ==
    /\ gotoCache = << >>
    /\ arrival = << >>
    /\ calls = [p \in Procs |-> Idle]
    /\ hostDefinesName = TRUE
    /\ lastCall = NoCall
    /\ LspIdle
    /\ CrawlIdle
    /\ findInput \in FindCalls
    /\ findOutput = None

NextFind ==
    \/ FindChildrenRuns
    \/ FindTypeIdentifiersRuns

SpecFind == InitFind /\ [][NextFind]_vars

-----------------------------------------------------------------------------
(* Properties of the lookup cache, checked under SpecCache *)

\* a call for input t starts and misses: it is suspended at the service call
BeganMiss(t) ==
    \E p \in Procs : calls[p].pc = "idle" /\ calls'[p].pc = "awaiting" /\ calls'[p].input = t

\* a call for input t starts and hits: it completes at once
BeganHit(t) ==
    lastCall'.seq # lastCall.seq /\ lastCall'.outcome = "hit" /\ lastCall'.input = t

AllIdle == \A p \in Procs : calls[p].pc = "idle"

\* C1: in every reachable state, whatever calls are in flight, gotoCache holds
\* at most MAX_CACHE_SIZE entries.
C1_CacheBounded == Len(gotoCache) <= MAX_CACHE_SIZE

\* a store at capacity has just evicted while another call is still in flight
C1_Witness ==
    /\ Len(gotoCache) = MAX_CACHE_SIZE
    /\ lastCall.outcome = "stored" /\ IsSome(lastCall.evicted)
    /\ \E p \in Procs : calls[p].pc = "awaiting"

\* C2: a call that is served from the cache is served by an entry that was
\* stored for its own (kind, file, line, column).
C2_ServedForSameTuple ==
    lastCall.outcome = "hit" => lastCall.servedFrom = lastCall.input

C4_FailureNeverPropagates == lastCall.outcome # "threw"

\* C8: the entry a store evicts is the one that entered the cache first among
\* those present, and a cache hit leaves the cache and its order as they were.
C8_FifoEviction ==
    [][ lastCall'.seq # lastCall.seq
        => /\ IsSome(lastCall'.evicted) => lastCall'.evicted[1] = arrival[1].key
           /\ lastCall'.outcome = "hit" => gotoCache' = gotoCache ]_vars

\* a store has evicted the entry of one of Inputs, which calls could hit before
C8_Witness ==
    /\ lastCall.outcome = "stored"
    /\ lastCall.evicted = Some(gotoInputKey(FillInput(1)))
    /\ Len(gotoCache) = MAX_CACHE_SIZE

-----------------------------------------------------------------------------
(* Properties of the orchestrator and the enricher, checked under SpecLsp *)

\* C5: getDefinitionsFromLsp never raises, whatever fails inside it; when the
\* parse fails or the node path is unavailable it returns the empty sequence.
C5_NeverRaises ==
    /\ lspPc # "raised"
    /\ (lspPc = "returned" /\ (lspHist.ast # "ok" \/ lspHist.path # "ok"))
         => lspReturn = << >>

\* the hover lookup failed and the call has returned all the same
C5_Witness == lspPc = "returned" /\ lspHist.hoverFailed

\* C6: when the hover lookup fails for one node, the snippets produced for the
\* other nodes of the path are still returned.
C6_PartialResultsKept ==
    (lspPc = "returned" /\ lspHist.hoverFailed) => lspReturn = Snippets(lspResults)

\* the first hover result's first content entry exposes a string value
ExposesStringValue(hoverResult) ==
    /\ IsSome(hoverResult)
    /\ Len(hoverResult[1]) > 0
    /\ hoverResult[1][1].contents # << >>
    /\ hoverResult[1][1].contents[1].kind = "object"
    /\ IsSome(hoverResult[1][1].contents[1].value)

FirstValue(hoverResult) == hoverResult[1][1].contents[1].value[1]

\* t is v without its leading and trailing white space
IsTrimOf(t, v) ==
    /\ t # << >> => ~IsSpace(t[1]) /\ ~IsSpace(t[Len(t)])
    /\ \E i \in 1..(Len(v) + 1), j \in 0..Len(v) :
         /\ SubSeq(v, i, j) = t
         /\ \A k \in 1..Len(v) : (k < i \/ k > j) => IsSpace(v[k])

Blank(v) == \A k \in 1..Len(v) : IsSpace(v[k])

Visited == lastNode.node.type # ""

\* what C7 says of the nodes that need no hover, and of the score
C7_Rest ==
    /\ (Visited /\ IsCall(lastNode.node)
          /\ Distance(lastNode.node, cursorPosition) > MAX_DISTANCE)
         => lastNode.yielded = << >> /\ ~lastNode.issued
    /\ (Visited /\ ~IsCall(lastNode.node)) => lastNode.yielded = << >> /\ ~lastNode.issued
    /\ lspPc = "returned" => \A i \in 1..Len(lspReturn) : lspReturn[i].score = "0.8"

\* C7 as claimed: a call node at most MAX_DISTANCE lines from the cursor whose
\* hover exposes a string value yields exactly one result with the trimmed text;
\* a call node further away yields nothing and asks for no hover; another node
\* yields nothing; every snippet has score 0.8.
C7_OneResultPerNearbyCall ==
    /\ (Visited /\ IsCall(lastNode.node)
          /\ Distance(lastNode.node, cursorPosition) <= MAX_DISTANCE
          /\ lastNode.issued /\ ExposesStringValue(lastNode.hover[1]))
         => /\ Len(lastNode.yielded) = 1
            /\ IsTrimOf(lastNode.yielded[1].contents, FirstValue(lastNode.hover[1]))
    /\ C7_Rest

\* C7 amended: the nearby call node yields its one result when the exposed
\* string value has a character that is not white space; when the value is
\* empty or all white space it yields nothing.
C7_OneResultPerNearbyCallWithText ==
    /\ (Visited /\ IsCall(lastNode.node)
          /\ Distance(lastNode.node, cursorPosition) <= MAX_DISTANCE)
         => /\ lastNode.issued
            /\ ExposesStringValue(lastNode.hover[1])
                 => IF Blank(FirstValue(lastNode.hover[1]))
                    THEN lastNode.yielded = << >>
                    ELSE /\ Len(lastNode.yielded) = 1
                         /\ IsTrimOf(lastNode.yielded[1].contents,
                                     FirstValue(lastNode.hover[1]))
                         /\ lastNode.yielded[1].filepath = "file:///a.ts"
    /\ C7_Rest

\* a call node exactly MAX_DISTANCE lines from the cursor yielded a text that
\* the trim shortened, and the request returned it as a snippet
C7_Witness ==
    /\ lspPc = "returned"
    /\ Visited /\ IsCall(lastNode.node)
    /\ Distance(lastNode.node, cursorPosition) = MAX_DISTANCE
    /\ Len(lastNode.yielded) = 1
    /\ lastNode.yielded[1].contents # FirstValue(lastNode.hover[1])
    /\ \E i \in 1..Len(lspReturn) : lspReturn[i].contents = lastNode.yielded[1].contents

-----------------------------------------------------------------------------
(* Properties of the type crawl, checked under SpecCrawl *)

\* no two entries of res lie in the same file with intersecting ranges
NoOverlap(res) ==
    \A i, j \in 1..Len(res) :
       i < j => ~(res[i].filepath = res[j].filepath
                  /\ Intersects(res[i].range, res[j].range))

IsPrefix(s, t) == Len(s) <= Len(t) /\ SubSeq(t, 1, Len(s)) = s

Entries(res) == { res[i] : i \in 1..Len(res) }

\* C9: at every step of a crawl started with empty results, and in the array
\* crawlTypes returns, no two entries have the same file and intersecting
\* ranges; an entry once inserted stays at its place, so of two candidates of
\* one file with intersecting ranges only the one inserted first is retained.
C9_NoOverlappingResults ==
    [][ /\ NoOverlap(crawlResults')
        /\ NoOverlap(crawlReturn')
        /\ IsPrefix(crawlResults, crawlResults') ]_vars

\* a crawl returned at least two entries after its last batch held two
\* candidates of one file with intersecting ranges: the first was kept, the
\* second was discarded
C9_Witness ==
    /\ crawlPc = "returned"
    /\ Len(crawlReturn) >= 2
    /\ \E i, j \in 1..Len(joined) :
          /\ i < j
          /\ IsSome(joined[i]) /\ IsSome(joined[j])
          /\ joined[i][1].filepath = joined[j][1].filepath
          /\ Intersects(joined[i][1].range, joined[j][1].range)
          /\ joined[i][1] \in Entries(crawlReturn)
          /\ joined[j][1] \notin Entries(crawlReturn)

\* C10: within one crawl each identifier text triggers at most one lookup: no
\* two executeGotoProvider calls of the crawl that reach the lookup service are
\* for the same text.
C10_OneLookupPerText ==
    \A i, j \in 1..Len(lookedUp) :
       (i # j /\ ~lookedUp[i].cached /\ ~lookedUp[j].cached)
          => lookedUp[i].text # lookedUp[j].text

\* a callback of identifierNodes.map whose executeGotoProvider call rejected
LookupFailed(task) == task.pc = "failed" /\ task.typeDef = None

\* C11: a lookup that throws for one identifier is folded into "no definition":
\* no callback of the batch rejects because of it, so crawlTypes does not raise
\* on it, and every definition the batch did resolve is in the results or
\* duplicates an entry of them.
C11_LookupFailureLocalized ==
    /\ \A i \in 1..Len(tasks) : ~LookupFailed(tasks[i])
    /\ \A i \in 1..Len(joined) :
          IsSome(joined[i]) =>
             \/ joined[i][1] \in Entries(crawlResults)
             \/ IsDuplicate(crawlResults, joined[i][1])

\* C12: every recursive crawlTypes call is given a depth one less than its
\* caller's, only an activation of positive depth has made a recursive call,
\* and an activation of depth 0 never enters the loop of recursive calls.
C12_DepthDecreasesAndStopsAtZero ==
    /\ \A k \in 1..(Len(stack) - 1) :
          /\ stack[k].stage = "recurse"
          /\ stack[k].depth > 0
          /\ stack[k + 1].depth = stack[k].depth - 1
    /\ \A k \in 1..Len(stack) : stack[k].depth = 0 => stack[k].stage # "recurse"

\* an activation two calls below the top-level one has depth 0 and is resolving
\* the identifiers of its seed
C12_Witness ==
    /\ Len(stack) = 3
    /\ stack[1].depth = 2
    /\ Top.depth = 0
    /\ Top.stage = "lookups"
    /\ tasks # << >>

\* C13: when every external call returns, a crawl that was started eventually
\* returns its results, whatever its depth and seed, also when a definition
\* refers back to names met before.
C13_CrawlTerminates == (crawlPc = "running") ~> (crawlPc = "returned")

\* a crawl returned after it expanded the definition of Foo, whose text refers
\* to Foo itself and to Bar, both met in the seed, and looked up Baz from it
C13_Witness ==
    /\ crawlPc = "returned"
    /\ Rif(LocFoo.filepath, LocFoo.range, Some(FooText)) \in Entries(crawlReturn)
    /\ \E i \in 1..Len(lookedUp) :
          lookedUp[i].text = << "B", "a", "z" >> /\ lookedUp[i].input.uri = LocFoo.filepath

\* an executeGotoProvider call stores its result in this step
Stores == lastCall'.seq # lastCall.seq /\ lastCall'.outcome = "stored"

\* C14: a store made while the cache holds MAX_CACHE_SIZE entries evicts exactly
\* one prior entry and leaves the cache at MAX_CACHE_SIZE entries; a store made
\* while it holds fewer evicts nothing; for every interleaving of lookups in
\* flight.
C14_StoreAtCapacityKeepsSize ==
    [][ Stores =>
          IF Len(gotoCache) = MAX_CACHE_SIZE
          THEN /\ Cardinality(MapKeys(gotoCache) \ MapKeys(gotoCache')) = 1
               /\ Len(gotoCache') = MAX_CACHE_SIZE
          ELSE MapKeys(gotoCache) \subseteq MapKeys(gotoCache') ]_vars

\* C15: the set searchedLabels of a crawl only grows, and when crawlTypes
\* issues the lookups of a batch the text of every identifier of the batch is in
\* the set; so is the text of every lookup still in flight.
C15_LabelsGrowAndCoverLookups ==
    [][ /\ searchedLabels \subseteq searchedLabels'
        /\ \A i \in (Len(lookedUp) + 1)..Len(lookedUp') :
              lookedUp'[i].text \in searchedLabels'
        /\ \A i \in 1..Len(tasks') : tasks'[i].text \in searchedLabels' ]_vars

\* a recursive activation added Baz to the labels of the seed and has its
\* lookup in flight
C15_Witness ==
    /\ Len(stack) >= 2
    /\ { << "F", "o", "o" >>, << "B", "a", "r" >>, << "B", "a", "z" >> } \subseteq searchedLabels
    /\ \E i \in 1..Len(tasks) : tasks[i].pc = "lookup" /\ tasks[i].text = << "B", "a", "z" >>

-----------------------------------------------------------------------------
(* Properties of findChildren and findTypeIdentifiers, checked under SpecFind *)

RECURSIVE Flatten(_)
Flatten(seqs) == IF seqs = << >> THEN << >> ELSE Head(seqs) \o Flatten(Tail(seqs))

\* the nodes of the subtree of node that have the kind asked for, a node before
\* its children and the children from left to right
RECURSIVE PreOrderOfKind(_, _)
PreOrderOfKind(node, kind) ==
    (IF node.type = kind THEN << node >> ELSE << >>)
    \o Flatten([i \in 1..Len(node.children) |-> PreOrderOfKind(node.children[i], kind)])

FirstN(s, n) == SubSeq(s, 1, IF n < Len(s) THEN n ELSE Len(s))

\* C16: findChildren called with a cap N >= 1 returns the first N nodes of the
\* subtree, in pre-order, that satisfy the predicate, and so at most N nodes;
\* called without a cap it returns all of them in pre-order.
C16_CapIsRespected ==
    (findInput.function = "findChildren" /\ IsSome(findOutput)) =>
       LET all == PreOrderOfKind(findInput.node, findInput.predicate)
           firstN == findInput.firstN
       IN /\ firstN = None => findOutput[1] = all
          /\ (IsSome(firstN) /\ firstN[1] >= 1) =>
                /\ Len(findOutput[1]) <= firstN[1]
                /\ findOutput[1] = FirstN(all, firstN[1])

IsUpperCaseLetter(c) == \E i \in 1..26 : UpperCase[i] = c

\* the child of the tree findTypeIdentifiers was called on
OnlyChild == findInput.node.children[1]

\* C17: findTypeIdentifiers accepts a node exactly when its kind is
\* "type_identifier", or its kind is "identifier", its parent is a parse-error
\* node and its text starts with an upper-case letter.
C17_AcceptsUpperCaseOnly ==
    (findInput.function = "findTypeIdentifiers" /\ IsSome(findOutput)) =>
       (findOutput[1] = << OnlyChild >>
          <=> \/ OnlyChild.type = "type_identifier"
              \/ /\ OnlyChild.type = "identifier"
                 /\ findInput.node.type = "ERROR"
                 /\ IsUpperCaseLetter(OnlyChild.text[1]))

-----------------------------------------------------------------------------
(* Further properties of the type crawl, checked under SpecCrawl *)

\* a callback of identifierNodes.map whose ide.readRangeInFile call rejected
ReadFailed(task) == task.pc = "failed" /\ IsSome(task.typeDef)

\* C18: a range read that fails for one resolved definition is folded into "no
\* definition" for that identifier: no callback of the batch rejects because of
\* it, so crawlTypes does not raise on it, and every definition the batch did
\* resolve is in the results or duplicates an entry of them.
C18_ReadFailureLocalized ==
    /\ \A i \in 1..Len(tasks) : ~ReadFailed(tasks[i])
    /\ \A i \in 1..Len(joined) :
          IsSome(joined[i]) => IsDuplicate(crawlResults, joined[i][1])

-----------------------------------------------------------------------------
(* Further properties of the lookup cache, checked under SpecCache *)

\* an executeGotoProvider call ends in its catch block in this step
FailsNow == lastCall'.seq # lastCall.seq /\ lastCall'.outcome \in { "caught", "threw" }

\* the call that completed last failed, and a call with its key begins
BeginsAfterFailure(t) ==
    /\ lastCall.outcome \in { "caught", "threw" }
    /\ gotoInputKey(t) = gotoInputKey(lastCall.input)
    /\ BeganMiss(t) \/ BeganHit(t)

\* C19 as stated: a call whose lookup fails leaves gotoCache as it was, and the
\* next call with the same key invokes the service again.
C19_NextCallAsksAgain ==
    [][ /\ FailsNow => gotoCache' = gotoCache
        /\ \A t \in Inputs : BeginsAfterFailure(t) => BeganMiss(t) ]_vars

\* C19, amended: a call whose lookup fails leaves gotoCache as it was; the
\* cache changes only when a call stores, and a call stores only the normalized
\* result, empty or not, of a lookup that succeeded; so the next call with the
\* key of a failed call invokes the service again, or is served what a lookup
\* that succeeded had stored under that key.
C19_FailureNotMemoized ==
    [][ /\ FailsNow => gotoCache' = gotoCache
        /\ Stores => /\ lastCall'.external
                     /\ MapHas(gotoCache', gotoInputKey(lastCall'.input))
                     /\ MapGet(gotoCache', gotoInputKey(lastCall'.input)) = lastCall'.result
        /\ gotoCache' # gotoCache => Stores
        /\ \A t \in Inputs :
              BeginsAfterFailure(t) =>
                 \/ BeganMiss(t)
                 \/ /\ lastCall'.servedFrom # NoInput
                    /\ gotoInputKey(lastCall'.servedFrom) = gotoInputKey(t) ]_vars

\* a lookup failed while the cache was full and left it as it was, and a lookup
\* that normalized to the empty sequence has been stored
C19_Witness ==
    /\ lastCall.outcome \in { "caught", "threw" }
    /\ Len(gotoCache) = MAX_CACHE_SIZE
    /\ ~MapHas(gotoCache, gotoInputKey(lastCall.input))
    /\ \E i \in 1..Len(gotoCache) :
          gotoCache[i].value = << >> /\ gotoCache[i].key \in { gotoInputKey(t) : t \in Inputs }

-----------------------------------------------------------------------------
(* Properties of the crawls of a project, checked under SpecCrawlProject *)

\* the places of the definitions of the names that occur in contents
DefinedIn(contents) ==
    LET nodes == findTypeIdentifiers(Ast(contents).rootNode)
    IN { DefinitionOf(nodes[i].text) : i \in 1..Len(nodes) }

\* the places reachable from the seed's text by a chain of at most n lookups
RECURSIVE WithinLookups(_)
WithinLookups(n) ==
    IF n = 0 THEN {}
    ELSE IF n = 1 THEN DefinedIn(SeedText)
    ELSE LET nearer == WithinLookups(n - 1)
         IN nearer \cup UNION { DefinedIn(ReadRangeInFile(loc.filepath, loc.range)) :
                                  loc \in nearer }

\* C20: every entry a crawl of depth d has added to the results is reachable
\* from the seed by a chain of at most d + 1 definition lookups.
C20_ReachBoundedByDepth ==
    stack # << >> =>
       \A i \in 1..Len(crawlResults) :
          [filepath |-> crawlResults[i].filepath, range |-> crawlResults[i].range]
             \in WithinLookups(stack[1].depth + 1)

====
